---- MODULE Spec2Model ----
(***************************************************************************)
(* Secure contact exchange of fn-posts: the ContactExchangeRequest         *)
(* aggregate, the RSA encryption engine with its key store, and the        *)
(* ContactExchangeService that drives them.                                *)
(*                                                                         *)
(* Time is a discrete clock `now`; every time.Now() / NOW() of the code    *)
(* reads it.  One clock unit stands for one hour.                          *)
(***************************************************************************)
EXTENDS Integers, Sequences, FiniteSets, TLC

VARIABLES
    now,        \* the wall clock read by time.Now() and SQL NOW()
    agg,        \* a ContactExchangeRequest held in memory (Nil before construction)
    aggBefore,  \* that aggregate as it was when the last method call started
    aggCall,    \* the last method call on agg: [op, err, at]
    keys,       \* the encryption_keys table: fingerprint -> [is_active, created_at]
    nextFp,     \* the fingerprint of the next key pair rsa.GenerateKey returns
    engine,     \* the RSAEncryptionService instances: [pc, activeKey]
    rot,        \* the RotateKeys calls in flight: [pc, eng, old, result, overlap]
    rotOk,      \* how many RotateKeys calls have returned nil
    lastEnc,    \* the last EncryptContactInfo call of an engine and what it saw
    lastDec,    \* the last engine DecryptContactInfo call and what it returned
    tok,        \* the GenerateContactToken call in flight, then the token it made
    lastVal,    \* the last ValidateContactToken call and what it returned
    db,         \* the contact_exchange_requests table: a row per request id
    approve,    \* the ApproveContactExchange call in flight: its position and locals
    deny,       \* the DenyContactExchange call in flight: its position and locals
    sweep,      \* the ProcessExpiredRequests run: position, fetched requests left
    cleanup,    \* the CleanupExpiredTokens run: position, fetched requests left
    audit,      \* the encryption_audit_logs table, in insertion order
    events,     \* the events handed to the publisher, in order
    ret,        \* what the last service call returned to its caller
    nCalls      \* how many service calls have been started

aggVars == <<agg, aggBefore, aggCall>>
keyVars == <<keys, nextFp, engine, rot, rotOk, lastEnc, lastDec, tok, lastVal>>
svcVars == <<db, approve, deny, sweep, cleanup, audit, events, ret, nCalls>>
\* What the operations of one component leave alone.
AggFrame == UNCHANGED <<keyVars, svcVars>>
KeyFrame == UNCHANGED <<now, aggVars, svcVars>>
SvcFrame == UNCHANGED <<aggVars, keyVars>>
vars == <<now, agg, aggBefore, aggCall, keys, nextFp, engine, rot, rotOk, lastEnc,
          lastDec, tok, lastVal,
          db, approve, deny, sweep, cleanup, audit, events, ret, nCalls>>

\* ---------------------------------------------------------------- bounds
MaxTime == 3
MaxKeys == 3      \* key pairs generated in a run
MaxReq == 1       \* requests created in a run of the service
MaxCalls == 4     \* service calls started in a run of the service
BulkExtra == 1    \* how far the bulk runs' tables exceed the sweep's fetch limit
SweepRows == 3    \* rows of the table the failing runs sweep

\* ---------------------------------------------------------------- values
Nil == "nil"                  \* an absent string-valued field (a nil pointer)
NoErr == "ok"
NoRequest == [nil |-> TRUE]   \* a nil *ContactExchangeRequest
NoEnc == [nil |-> TRUE]       \* a nil *EncryptedContactInfo

DefaultExpirationHours == 72

Users == {"u1", "u2", "u3"}
AggUsers == {"u1", "u2"}      \* the identities the aggregate-level runs construct with
ZeroUser == "zero-user"
Posts == {"post1"}
ZeroPost == "zero-post"

ApprovalTypes == {"full_contact", "platform_message", "limited_contact"}
DenialReasons == {"not_owner", "other"}
DenialMessages == {Nil, "not yours"}   \* the optional message of a denial

\* Encrypted payloads the aggregate is handed in the aggregate-level runs.
EncInputs == {NoEnc, [Email |-> [b64 |-> "c1"]], [Email |-> [b64 |-> "c2"]]}
\* Hours the constructor is handed: below, at and above the default switch, and
\* the two values on either side of the largest hour count whose nanoseconds
\* fit an int64.
ExpirationHoursInputs == {-1, 0, 1, 2, 2562047, 2562048}

\* ------------------------------------------------------ time.Duration
\* A time.Duration is an int64 count of nanoseconds. The clock of this module
\* counts hours, so a duration is held as [h, u]: h whole hours plus u units
\* of 2^13 ns with 0 <= u < Hour (time.Hour and 2^64 are both multiples of
\* 2^13 ns, so every product of an integer with time.Hour, wrapped to 64
\* bits, is a whole number of units).
Hour == 439453125           \* time.Hour = 3,600,000,000,000 ns, in units
WordHours == 5124095        \* 2^64 ns = WordHours hours + WordUnits units
WordUnits == 253138373
MaxInt64Hours == 2562047    \* 2^63 ns = MaxInt64Hours hours + MaxInt64Units units
MaxInt64Units == 346295749

DurationLess(a, b) == a.h < b.h \/ (a.h = b.h /\ a.u < b.u)

\* [h, u] with u brought back into 0 .. Hour - 1 after one addition.
Carry(h, u) ==
    IF u < 0 THEN [h |-> h - 1, u |-> u + Hour]
    ELSE IF u >= Hour THEN [h |-> h + 1, u |-> u - Hour]
    ELSE [h |-> h, u |-> u]

\* The int64 a mathematical nanosecond count wraps to (two's complement).
RECURSIVE Int64(_)
Int64(d) ==
    IF ~DurationLess(d, [h |-> MaxInt64Hours, u |-> MaxInt64Units])
    THEN Int64(Carry(d.h - WordHours, d.u - WordUnits))
    ELSE IF DurationLess(d, Carry(-MaxInt64Hours, -MaxInt64Units))
    THEN Int64(Carry(d.h + WordHours, d.u + WordUnits))
    ELSE d

\* time.Duration(hours) * time.Hour
DurationHours(hours) == Int64([h |-> hours, u |-> 0])

\* Time.Add on the hour clock: the instant's hour (a negative duration that is
\* not a whole number of hours lands in the hour before).
Add(t, d) == t + d.h

\* ------------------------------------------------- ContactExchangeRequest
\* The constructor without its requester-is-owner check (mutant).
NewContactExchangeRequest_NoSelfCheck(postID, requesterUserID, ownerUserID, expirationHours, t) ==
    IF postID = ZeroPost THEN [err |-> "invalid_post_id", c |-> NoRequest]
    ELSE IF requesterUserID = ZeroUser \/ ownerUserID = ZeroUser
         THEN [err |-> "invalid_user_id", c |-> NoRequest]
    ELSE [err |-> NoErr,
          c |-> [postID |-> postID,
                 requesterUserID |-> requesterUserID,
                 ownerUserID |-> ownerUserID,
                 status |-> "pending",
                 approvalType |-> Nil,
                 denialReason |-> Nil,
                 denialMessage |-> Nil,
                 encryptedContactInfo |-> NoEnc,
                 expiresAt |-> Add(t, DurationHours(IF expirationHours <= 0
                                                    THEN DefaultExpirationHours
                                                    ELSE expirationHours)),
                 createdAt |-> t,
                 updatedAt |-> t]]

NewContactExchangeRequest(postID, requesterUserID, ownerUserID, expirationHours, t) ==
    IF postID = ZeroPost THEN [err |-> "invalid_post_id", c |-> NoRequest]
    ELSE IF requesterUserID = ZeroUser \/ ownerUserID = ZeroUser
         THEN [err |-> "invalid_user_id", c |-> NoRequest]
    ELSE IF requesterUserID = ownerUserID
         THEN [err |-> "cannot_request_own_contact", c |-> NoRequest]
    ELSE LET hours == IF expirationHours <= 0 THEN DefaultExpirationHours
                      ELSE expirationHours
         IN [err |-> NoErr,
             c |-> [postID |-> postID,
                    requesterUserID |-> requesterUserID,
                    ownerUserID |-> ownerUserID,
                    status |-> "pending",
                    approvalType |-> Nil,
                    denialReason |-> Nil,
                    denialMessage |-> Nil,
                    encryptedContactInfo |-> NoEnc,
                    expiresAt |-> Add(t, DurationHours(hours)),
                    createdAt |-> t,
                    updatedAt |-> t]]

IsExpired(c, t) == t > c.expiresAt

CanBeApproved(c, t) == c.status = "pending" /\ ~IsExpired(c, t)

CanBeDenied(c) == c.status = "pending"

\* Approve without its expiry check (mutant).
Approve_NoExpiryCheck(c, approvalType, encryptedContactInfo, t) ==
    IF c.status # "pending" THEN [err |-> "invalid_status", c |-> c]
    ELSE [err |-> NoErr,
          c |-> [c EXCEPT !.status = "approved",
                          !.approvalType = approvalType,
                          !.encryptedContactInfo = encryptedContactInfo,
                          !.updatedAt = t]]

Approve(c, approvalType, encryptedContactInfo, t) ==
    IF c.status # "pending" THEN [err |-> "invalid_status", c |-> c]
    ELSE IF IsExpired(c, t) THEN [err |-> "expired", c |-> c]
    ELSE [err |-> NoErr,
          c |-> [c EXCEPT !.status = "approved",
                          !.approvalType = approvalType,
                          !.encryptedContactInfo = encryptedContactInfo,
                          !.updatedAt = t]]

\* Deny without its status check (mutant).
Deny_NoStatusCheck(c, reason, message, t) ==
    [err |-> NoErr,
     c |-> [c EXCEPT !.status = "denied",
                     !.denialReason = reason,
                     !.denialMessage = message,
                     !.updatedAt = t]]

\* Deny that drops the message it is handed (mutant).
Deny_MessageDropped(c, reason, message, t) ==
    IF c.status # "pending" THEN [err |-> "invalid_status", c |-> c]
    ELSE [err |-> NoErr,
          c |-> [c EXCEPT !.status = "denied",
                          !.denialReason = reason,
                          !.updatedAt = t]]

Deny(c, reason, message, t) ==
    IF c.status # "pending" THEN [err |-> "invalid_status", c |-> c]
    ELSE [err |-> NoErr,
          c |-> [c EXCEPT !.status = "denied",
                          !.denialReason = reason,
                          !.denialMessage = message,
                          !.updatedAt = t]]

\* Expire that accepts every status (mutant).
Expire_AnyStatus(c, t) ==
    IF c.status = "expired" THEN [err |-> NoErr, c |-> c]
    ELSE [err |-> NoErr,
          c |-> [c EXCEPT !.status = "expired", !.updatedAt = t]]

\* Expire that stamps an already expired request again (mutant).
Expire_Restamp(c, t) ==
    IF c.status # "pending" /\ c.status # "approved" /\ c.status # "expired"
    THEN [err |-> "invalid_status", c |-> c]
    ELSE [err |-> NoErr,
          c |-> [c EXCEPT !.status = "expired", !.updatedAt = t]]

Expire(c, t) ==
    IF c.status = "expired" THEN [err |-> NoErr, c |-> c]
    ELSE IF c.status # "pending" /\ c.status # "approved"
         THEN [err |-> "invalid_status", c |-> c]
    ELSE [err |-> NoErr,
          c |-> [c EXCEPT !.status = "expired", !.updatedAt = t]]

\* ClearContactInfo without its status check (mutant).
ClearContactInfo_AnyStatus(c, t) ==
    [err |-> NoErr,
     c |-> [c EXCEPT !.encryptedContactInfo = NoEnc, !.updatedAt = t]]

ClearContactInfo(c, t) ==
    IF c.status # "expired" THEN [err |-> "not_expired", c |-> c]
    ELSE [err |-> NoErr,
          c |-> [c EXCEPT !.encryptedContactInfo = NoEnc, !.updatedAt = t]]

\* ------------------------------------------------------ KeyRepository
\* encryption_keys rows, keyed by fingerprint.  The table carries
\*   CONSTRAINT one_active_key EXCLUDE (is_active WITH =) WHERE (is_active = true)
\* so a statement that would leave two rows with is_active = true fails.
NoKey == 0
Engines == {"e1", "e2"}
RotCalls == {"r1", "r2"}

ActiveFps(ks) == {f \in DOMAIN ks : ks[f].is_active}

\* The table without its exclusion constraint (mutant).
one_active_key_Dropped(ks) == TRUE

one_active_key(ks) == Cardinality(ActiveFps(ks)) <= 1

\* SaveKey against a table that lets the row in whatever it holds (mutant).
SaveKey_Unchecked(ks, fp, isActive, t) ==
    [err |-> NoErr,
     keys |-> [f \in DOMAIN ks \cup {fp} |->
                 IF f = fp THEN [is_active |-> isActive, created_at |-> t]
                 ELSE ks[f]]]

\* INSERT ... ON CONFLICT (fingerprint) DO UPDATE
SaveKey(ks, fp, isActive, t) ==
    LET row == [is_active |-> isActive,
                created_at |-> IF fp \in DOMAIN ks THEN ks[fp].created_at ELSE t]
        after == [f \in DOMAIN ks \cup {fp} |-> IF f = fp THEN row ELSE ks[f]]
    IN IF one_active_key(after) THEN [err |-> NoErr, keys |-> after]
       ELSE [err |-> "save_failed", keys |-> ks]

\* SELECT ... WHERE is_active = true ORDER BY created_at DESC LIMIT 1
GetActiveKey(ks) ==
    LET act == ActiveFps(ks)
        newest == {f \in act : \A g \in act : ks[g].created_at <= ks[f].created_at}
    IN IF act = {} THEN [err |-> "no_active_key", fps |-> {}]
       ELSE [err |-> NoErr, fps |-> newest]

\* The lookup as it would be were it restricted to active keys.
GetKeyByFingerprint_ActiveOnly(ks, fp) ==
    IF fp \in ActiveFps(ks) THEN [err |-> NoErr, fp |-> fp]
    ELSE [err |-> "key_not_found", fp |-> NoKey]

GetKeyByFingerprint(ks, fp) ==
    IF fp \in DOMAIN ks THEN [err |-> NoErr, fp |-> fp]
    ELSE [err |-> "key_not_found", fp |-> NoKey]

\* UPDATE encryption_keys SET is_active = false WHERE fingerprint = $1
MarkKeyInactive(ks, fp) ==
    IF fp \notin DOMAIN ks THEN [err |-> "no_key_found", keys |-> ks]
    ELSE [err |-> NoErr,
          keys |-> [ks EXCEPT ![fp] = [@ EXCEPT !.is_active = FALSE]]]

\* -------------------------------------------------- RSAEncryptionService
KeyBits == 4096
HashBytes == 32
\* The longest message RSA-OAEP takes under a KeyBits key and a HashBytes hash.
OAEPMaxMessage == (KeyBits \div 8) - 2 * HashBytes - 2

NoText == [nil |-> TRUE]          \* a nil *string
Text(n) == [len |-> n]            \* a string, known by its length
Emails == {NoText, Text(16)}
Phones == {NoText, Text(11)}
Messages == {NoText, Text(25), Text(400)}
ContactInfos == [Email : Emails, Phone : Phones, Message : Messages]
\* The payloads the engine-level runs encrypt: one that fits one RSA block,
\* one that does not.
EngineInputs ==
    {[Email |-> Text(16), Phone |-> Text(11), Message |-> Text(25)],
     [Email |-> Text(16), Phone |-> Text(11), Message |-> Text(400)]}

FieldLen(tagLen, v) == IF v = NoText THEN 0 ELSE tagLen + 6 + v.len

\* json.Marshal(ContactInfo): the bytes, known by their content and length.
Marshal(ci) ==
    [json |-> ci,
     len |-> 2 + (16 + 6 + 5) + FieldLen(5, ci.Email) + FieldLen(5, ci.Phone)
               + FieldLen(7, ci.Message)]

Unmarshal(bytes) == bytes.json

B64Encode(bytes) == [b64 |-> bytes]
B64Decode(str) == str.b64

\* rsa.EncryptOAEP under the public key of the key pair `fp`
encryptWithKey(data, fp) ==
    IF data.len > OAEPMaxMessage THEN [err |-> "message_too_long", out |-> NoText]
    ELSE [err |-> NoErr, out |-> [cipher |-> data, fp |-> fp]]

\* rsa.DecryptOAEP under the private key of the key pair `fp`
decryptWithKey(data, fp) ==
    IF data.fp # fp THEN [err |-> "decryption_error", out |-> NoText]
    ELSE [err |-> NoErr, out |-> data.cipher]

EncryptContactInfo(activeKey, ci) ==
    LET res == encryptWithKey(Marshal(ci), activeKey)
    IN IF res.err # NoErr THEN [err |-> res.err, enc |-> NoEnc]
       ELSE [err |-> NoErr,
             enc |-> [Email |-> B64Encode(res.out),
                      Phone |-> ci.Phone,
                      Message |-> ci.Message]]

DecryptContactInfo(activeKey, enc) ==
    IF enc.Email = NoText THEN [err |-> "no_encrypted_data", ci |-> NoText]
    ELSE LET res == decryptWithKey(B64Decode(enc.Email), activeKey)
         IN IF res.err # NoErr THEN [err |-> res.err, ci |-> NoText]
            ELSE [err |-> NoErr, ci |-> Unmarshal(res.out)]

\* sha256.Sum256, taken as collision free: the digest is known by its input.
Sha256(bytes) == [sha |-> bytes]

NonceBytes == 16        \* generateNonce: make([]byte, 16)
NonceLen == 4 * ((NonceBytes + 2) \div 3)     \* in base64.StdEncoding
UnixDigits == 10        \* time.Time.Unix() in decimal
\* The bytes json.Marshal adds around the contact info in the token payload:
\* {"contact_info":..,"created_at":..,"expires_at":..,"nonce":".."}
TokenOverhead == 2 + 15 + (1 + 13 + UnixDigits) + (1 + 13 + UnixDigits)
                 + (1 + 8 + 2 + NonceLen)

\* json.Marshal(map[string]interface{}) of the token payload
MarshalPayload(ci, expiresAt, createdAt) ==
    [json |-> [contact_info |-> ci, expires_at |-> expiresAt,
               created_at |-> createdAt],
     len |-> TokenOverhead + Marshal(ci).len]

NoToken == [nil |-> TRUE]

\* GenerateContactToken up to the integrity hash: the payload encrypted under
\* the key s.activeKey holds when encryptWithActiveKey reads it.
TokenCipher(activeKey, ci, expiresAt, t) ==
    encryptWithKey(MarshalPayload(ci, expiresAt, t), activeKey)

\* GenerateContactToken from the ContactToken literal on: the fingerprint is
\* that of the key s.activeKey holds when the literal reads it.
TokenLiteral(encryptedData, activeKey, expiresAt, t) ==
    [Token |-> B64Encode(encryptedData),
     KeyFingerprint |-> activeKey,
     ExpiresAt |-> expiresAt,
     CreatedAt |-> t,
     IntegrityHash |-> B64Encode(Sha256(encryptedData))]

\* Validation as it would be with the integrity check ahead of the expiry
\* check (mutant).
ValidateContactToken_IntegrityFirst(ks, token, t) ==
    LET encryptedData == B64Decode(token.Token)
    IN IF B64Encode(Sha256(encryptedData)) # token.IntegrityHash
       THEN [err |-> "integrity_check_failed", ci |-> NoText]
       ELSE IF t > token.ExpiresAt THEN [err |-> "token_expired", ci |-> NoText]
       ELSE LET key == GetKeyByFingerprint(ks, token.KeyFingerprint)
            IN IF key.err # NoErr THEN [err |-> key.err, ci |-> NoText]
               ELSE LET res == decryptWithKey(encryptedData, key.fp)
                    IN IF res.err # NoErr THEN [err |-> res.err, ci |-> NoText]
                       ELSE [err |-> NoErr,
                             ci |-> Unmarshal(Marshal(
                                       Unmarshal(res.out).contact_info))]

\* Validation as it would be with the key lookup ahead of the integrity check
\* (mutant).
ValidateContactToken_LookupFirst(ks, token, t) ==
    IF t > token.ExpiresAt THEN [err |-> "token_expired", ci |-> NoText]
    ELSE LET encryptedData == B64Decode(token.Token)
             key == GetKeyByFingerprint(ks, token.KeyFingerprint)
         IN IF key.err # NoErr THEN [err |-> key.err, ci |-> NoText]
            ELSE IF B64Encode(Sha256(encryptedData)) # token.IntegrityHash
            THEN [err |-> "integrity_check_failed", ci |-> NoText]
            ELSE LET res == decryptWithKey(encryptedData, key.fp)
                 IN IF res.err # NoErr THEN [err |-> res.err, ci |-> NoText]
                    ELSE [err |-> NoErr,
                          ci |-> Unmarshal(Marshal(
                                    Unmarshal(res.out).contact_info))]

ValidateContactToken(ks, token, t) ==
    IF t > token.ExpiresAt THEN [err |-> "token_expired", ci |-> NoText]
    ELSE LET encryptedData == B64Decode(token.Token)
             expectedHash == B64Encode(Sha256(encryptedData))
         IN IF expectedHash # token.IntegrityHash
            THEN [err |-> "integrity_check_failed", ci |-> NoText]
            ELSE LET key == GetKeyByFingerprint(ks, token.KeyFingerprint)
                 IN IF key.err # NoErr THEN [err |-> key.err, ci |-> NoText]
                    ELSE LET res == decryptWithKey(encryptedData, key.fp)
                         IN IF res.err # NoErr
                            THEN [err |-> res.err, ci |-> NoText]
                            ELSE [err |-> NoErr,
                                  ci |-> Unmarshal(Marshal(
                                            Unmarshal(res.out).contact_info))]

\* What a caller may have done to a token before handing it back.
Tampers == {"none", "integrity_hash", "key_fingerprint", "hash_and_fingerprint"}
Tampered(token, how) ==
    CASE how = "none" -> token
      [] how = "integrity_hash" ->
            [token EXCEPT !.IntegrityHash = B64Encode(Sha256(NoText))]
      [] how = "key_fingerprint" -> [token EXCEPT !.KeyFingerprint = NoKey]
      [] how = "hash_and_fingerprint" ->
            [token EXCEPT !.IntegrityHash = B64Encode(Sha256(NoText)),
                          !.KeyFingerprint = NoKey]

\* ------------------------------------------- ContactExchangeRepository
\* contact_exchange_requests rows; a request's id is its row number.
SweepLimit == 100       \* ProcessExpiredRequests: FindExpired(ctx, 100)
CleanupLimit == 100     \* CleanupExpiredTokens: FindExpired(ctx, 100)

Min(a, b) == IF a <= b THEN a ELSE b

\* INSERT INTO contact_exchange_requests
Save(d, request) == Append(d, request)

\* SELECT ... WHERE id = $1
FindByID(d, id) ==
    IF id \in DOMAIN d THEN [err |-> NoErr, request |-> d[id]]
    ELSE [err |-> "not_found", request |-> NoRequest]

\* UPDATE ... WHERE id = $1 writes every mutable column from the aggregate it
\* is handed, whatever the row holds; the row's trigger then stamps
\* updated_at with NOW().  A missing row is no error.
Update(d, id, request, t) ==
    IF id \notin DOMAIN d THEN d
    ELSE [d EXCEPT ![id] = [@ EXCEPT !.status = request.status,
                                      !.approvalType = request.approvalType,
                                      !.denialReason = request.denialReason,
                                      !.denialMessage = request.denialMessage,
                                      !.encryptedContactInfo = request.encryptedContactInfo,
                                      !.expiresAt = request.expiresAt,
                                      !.updatedAt = t]]

\* The WHERE clause without its status condition (mutant).
Due_AnyStatus(d, t) == {id \in DOMAIN d : d[id].expiresAt <= t}

\* WHERE expires_at <= NOW() AND status IN ('pending', 'approved')
Due(d, t) ==
    {id \in DOMAIN d : d[id].expiresAt <= t /\ d[id].status \in {"pending", "approved"}}

\* ORDER BY expires_at ASC; rows of equal expires_at in insertion order
OrderByExpiresAt(d, ids) ==
    LET Before(j, i) == \/ d[j].expiresAt < d[i].expiresAt
                        \/ (d[j].expiresAt = d[i].expiresAt /\ j < i)
        Rank(i) == Cardinality({j \in ids : Before(j, i)}) + 1
    IN [k \in 1..Cardinality(ids) |-> CHOOSE i \in ids : Rank(i) = k]

\* ... ORDER BY expires_at ASC LIMIT $1
FindExpired(d, t, limit) ==
    LET sorted == OrderByExpiresAt(d, Due(d, t))
        page == SubSeq(sorted, 1, Min(limit, Len(sorted)))
    IN [k \in 1..Len(page) |-> [id |-> page[k], request |-> d[page[k]]]]

\* ------------------------------------------------ ContactExchangeService
PostOwner == "u2"                        \* post.CreatedBy() of the one post
Requesters == {"u1", PostOwner}
PostStates == {"active", "resolved", "missing"}
ServiceHours == {1}
ServiceApprovalTypes == {"full_contact"}
ServiceDenialReasons == {"not_owner"}
ServiceDenialMessages == {"not yours"}
\* The collaborator that fails during a step, if any.
Faults == {"none", "save", "find", "update", "lookup", "publish", "audit"}
NoFaults == {"none"}
UpdateFaults == {"none", "update"}
PublishFaults == {"none", "publish"}
SweepFaults == {"none", "update", "lookup"}

\* The post checks as they would be without the status check (mutant).
PostCheck_AnyStatus(postState) ==
    IF postState = "missing" THEN "post_not_found" ELSE NoErr

\* CreateContactExchangeRequest: postRepo.FindByID, then post.Status()
PostCheck(postState) ==
    IF postState = "missing" THEN "post_not_found"
    ELSE IF postState # "active" THEN "post_not_active"
    ELSE NoErr

\* A return that swallows the error (mutant).
Ret_ErrorSwallowed(op, err, id) == [op |-> op, err |-> NoErr, id |-> id]

Ret(op, err, id) == [op |-> op, err |-> err, id |-> id]
Event(type, id, originalStatus) ==
    [type |-> type, requestID |-> id, originalStatus |-> originalStatus]

\* ContactApproval.ToContactApprovalData: the contact token is declared and
\* never assigned, and the contact fields are set to nil.
ToContactApprovalData(id, approvalType, contactInfo) ==
    [RequestID |-> id, ApprovalType |-> approvalType, ContactToken |-> NoToken,
     PreferredMethod |-> NoText, Message |-> NoText]

\* The contact.exchange.approved event: its ContactApproval is built from the
\* request and the EncryptedContactInfo the call obtained.
ApprovedEvent(id, approvalType, contactInfo) ==
    [type |-> "contact.exchange.approved", requestID |-> id, originalStatus |-> Nil,
     data |-> ToContactApprovalData(id, approvalType, contactInfo)]
\* An entry that claims success whatever happened (mutant).
AuditEntry_SuccessOnly(operation, userID, id, keyFingerprint, success) ==
    [operation |-> operation, userID |-> userID, requestID |-> id,
     keyFingerprint |-> keyFingerprint, success |-> TRUE, errorMessage |-> Nil]

AuditEntry(operation, userID, id, keyFingerprint, success) ==
    [operation |-> operation, userID |-> userID, requestID |-> id,
     keyFingerprint |-> keyFingerprint, success |-> success, errorMessage |-> Nil]

\* The entry of a failed operation: ErrorMessage is err.Error()
WithErrorMessage(entry, err) ==
    IF err = NoErr THEN entry ELSE [entry EXCEPT !.errorMessage = err]

\* The rows of encryption_audit_logs that record a successful encrypt for
\* request id, by position.
EncryptSuccesses(au, id) ==
    {i \in 1..Len(au) : /\ au[i].operation = "encrypt"
                        /\ au[i].success
                        /\ au[i].requestID = id}

\* A run's loop as it would be were it to stop at the first failure (mutant).
RestAfter_StopOnError(queue, err) ==
    IF err # NoErr THEN <<>> ELSE Tail(queue)

\* What is left of a run's `for _, request := range expiredRequests` after the
\* turn for the first of queue ended with err: the error is printed and the
\* loop goes on.
RestAfter(queue, err) == Tail(queue)

\* expireContactExchangeRequest as it would be were a publish failure returned
\* and the transition withheld (mutant).
expireContactExchangeRequest_PublishSurfaced(d, ev, id, request, t, f) ==
    LET res == Expire(request, t)
    IN IF res.err # NoErr THEN [err |-> res.err, db |-> d, events |-> ev]
       ELSE IF f = "publish" THEN [err |-> "publish_failed", db |-> d, events |-> ev]
       ELSE [err |-> NoErr,
             db |-> Update(d, id, res.c, t),
             events |-> Append(ev, Event("contact.exchange.expired", id, "pending"))]

\* expireContactExchangeRequest on one fetched request, with collaborator f
\* failing: the error it returns, the table and the published events after it.
expireContactExchangeRequest(d, ev, id, request, t, f) ==
    LET res == Expire(request, t)
    IN IF res.err # NoErr THEN [err |-> res.err, db |-> d, events |-> ev]
       ELSE IF f = "update" THEN [err |-> "update_failed", db |-> d, events |-> ev]
       ELSE IF f = "lookup"
       THEN [err |-> "lookup_failed", db |-> Update(d, id, res.c, t), events |-> ev]
       ELSE [err |-> NoErr,
             db |-> Update(d, id, res.c, t),
             events |-> IF f = "publish" THEN ev
                        ELSE Append(ev, Event("contact.exchange.expired", id, "pending"))]

\* securelyCleanupContactInfo on one fetched request, with collaborator f
\* failing: the error it returns, the table and the audit log after it.
securelyCleanupContactInfo(d, au, id, request, t, f) ==
    LET res == ClearContactInfo(request, t)
        entry(ok) == WithErrorMessage(
                        AuditEntry("decrypt", request.ownerUserID, id,
                                   "cleanup_operation", ok), res.err)
    IN IF res.err # NoErr
       THEN [err |-> res.err, db |-> d,
             audit |-> IF f = "audit" THEN au ELSE Append(au, entry(FALSE))]
       ELSE IF f = "update" THEN [err |-> "update_failed", db |-> d, audit |-> au]
       ELSE [err |-> NoErr,
             db |-> Update(d, id, res.c, t),
             audit |-> IF f = "audit" THEN au ELSE Append(au, entry(TRUE))]

\* DecryptContactInfo without its authorization check (mutant).
ServiceDecryptContactInfo_NoAuthCheck(request, userID, t, activeKey) ==
    IF request.status # "approved"
    THEN [err |-> "not_approved", info |-> NoText, logged |-> FALSE]
    ELSE IF IsExpired(request, t)
    THEN [err |-> "expired", info |-> NoText, logged |-> FALSE]
    ELSE IF request.encryptedContactInfo = NoEnc
    THEN [err |-> "no_contact_information", info |-> NoText, logged |-> FALSE]
    ELSE LET res == DecryptContactInfo(activeKey, request.encryptedContactInfo)
         IN [err |-> IF res.err = NoErr THEN NoErr ELSE "decrypt_failed",
             info |-> res.ci, logged |-> TRUE]

\* DecryptContactInfo without its expiry check (mutant).
ServiceDecryptContactInfo_NoExpiryCheck(request, userID, t, activeKey) ==
    IF request.requesterUserID # userID /\ request.ownerUserID # userID
    THEN [err |-> "unauthorized", info |-> NoText, logged |-> FALSE]
    ELSE IF request.status # "approved"
    THEN [err |-> "not_approved", info |-> NoText, logged |-> FALSE]
    ELSE IF request.encryptedContactInfo = NoEnc
    THEN [err |-> "no_contact_information", info |-> NoText, logged |-> FALSE]
    ELSE LET res == DecryptContactInfo(activeKey, request.encryptedContactInfo)
         IN [err |-> IF res.err = NoErr THEN NoErr ELSE "decrypt_failed",
             info |-> res.ci, logged |-> TRUE]

\* ContactExchangeService.DecryptContactInfo once the request is loaded:
\* what it returns and whether it reaches the engine (and so the audit log).
ServiceDecryptContactInfo(request, userID, t, activeKey) ==
    IF request.requesterUserID # userID /\ request.ownerUserID # userID
    THEN [err |-> "unauthorized", info |-> NoText, logged |-> FALSE]
    ELSE IF request.status # "approved"
    THEN [err |-> "not_approved", info |-> NoText, logged |-> FALSE]
    ELSE IF IsExpired(request, t)
    THEN [err |-> "expired", info |-> NoText, logged |-> FALSE]
    ELSE IF request.encryptedContactInfo = NoEnc
    THEN [err |-> "no_contact_information", info |-> NoText, logged |-> FALSE]
    ELSE LET res == DecryptContactInfo(activeKey, request.encryptedContactInfo)
         IN [err |-> IF res.err = NoErr THEN NoErr ELSE "decrypt_failed",
             info |-> res.ci, logged |-> TRUE]

\* ------------------------------------------------------- initial states
AggInit ==
    /\ agg = NoRequest
    /\ aggBefore = NoRequest
    /\ aggCall = [op |-> "none", err |-> NoErr, at |-> 0]

KeyInit ==
    /\ keys = <<>>
    /\ nextFp = 1
    /\ engine = [e \in Engines |-> [pc |-> "none", activeKey |-> NoKey]]
    /\ rot = [r \in RotCalls |->
                [pc |-> "idle", eng |-> "e1", old |-> NoKey, result |-> "none",
                 overlap |-> FALSE]]
    /\ rotOk = 0
    /\ lastEnc = [op |-> "none"]
    /\ lastDec = [op |-> "none"]
    /\ tok = [pc |-> "none"]
    /\ lastVal = [op |-> "none"]

\* The key store and engine of a wired application: the service's engine e1
\* has been constructed, which generated and cached the first key.
KeyReady ==
    /\ keys = <<[is_active |-> TRUE, created_at |-> 0]>>
    /\ nextFp = 2
    /\ engine = [e \in Engines |->
                   IF e = "e1" THEN [pc |-> "ready", activeKey |-> 1]
                   ELSE [pc |-> "none", activeKey |-> NoKey]]
    /\ rot = [r \in RotCalls |->
                [pc |-> "idle", eng |-> "e1", old |-> NoKey, result |-> "none",
                 overlap |-> FALSE]]
    /\ rotOk = 0
    /\ lastEnc = [op |-> "none"]
    /\ lastDec = [op |-> "none"]
    /\ tok = [pc |-> "none"]
    /\ lastVal = [op |-> "none"]

IdleCall == [pc |-> "idle"]
IdleSweep == [pc |-> "idle", queue |-> <<>>, due |-> {}, faulted |-> FALSE]
IdleCleanup == [pc |-> "idle", queue |-> <<>>, stale |-> {}, faulted |-> FALSE]

SvcInit ==
    /\ db = <<>>
    /\ approve = IdleCall
    /\ deny = IdleCall
    /\ sweep = IdleSweep
    /\ cleanup = IdleCleanup
    /\ audit = <<>>
    /\ events = <<>>
    /\ ret = [op |-> "none"]
    /\ nCalls = 0

\* --------------------------------------------- aggregate-level operations
\* A caller holding one aggregate in memory and calling its methods.
AggNew ==
    /\ agg = NoRequest
    /\ \E p \in Posts \cup {ZeroPost}, r \in AggUsers \cup {ZeroUser},
          o \in AggUsers \cup {ZeroUser}, h \in ExpirationHoursInputs :
          LET res == NewContactExchangeRequest(p, r, o, h, now)
          IN /\ agg' = res.c
             /\ aggBefore' = NoRequest
             /\ aggCall' = [op |-> "New", err |-> res.err, at |-> now,
                             args |-> [postID |-> p, requesterUserID |-> r,
                                       ownerUserID |-> o, expirationHours |-> h]]
    /\ UNCHANGED now
    /\ AggFrame

AggApprove ==
    /\ agg # NoRequest
    /\ \E a \in ApprovalTypes, e \in EncInputs :
          LET res == Approve(agg, a, e, now)
          IN /\ agg' = res.c
             /\ aggBefore' = agg
             /\ aggCall' = [op |-> "Approve", err |-> res.err, at |-> now]
    /\ UNCHANGED now
    /\ AggFrame

AggDeny ==
    /\ agg # NoRequest
    /\ \E r \in DenialReasons, m \in DenialMessages :
          LET res == Deny(agg, r, m, now)
          IN /\ agg' = res.c
             /\ aggBefore' = agg
             /\ aggCall' = [op |-> "Deny", err |-> res.err, at |-> now,
                             args |-> [reason |-> r, message |-> m]]
    /\ UNCHANGED now
    /\ AggFrame

AggExpire ==
    /\ agg # NoRequest
    /\ LET res == Expire(agg, now)
       IN /\ agg' = res.c
          /\ aggBefore' = agg
          /\ aggCall' = [op |-> "Expire", err |-> res.err, at |-> now]
    /\ UNCHANGED now
    /\ AggFrame

AggClearContactInfo ==
    /\ agg # NoRequest
    /\ LET res == ClearContactInfo(agg, now)
       IN /\ agg' = res.c
          /\ aggBefore' = agg
          /\ aggCall' = [op |-> "ClearContactInfo", err |-> res.err, at |-> now]
    /\ UNCHANGED now
    /\ AggFrame

AggTick ==
    /\ now < MaxTime
    /\ now' = now + 1
    /\ UNCHANGED aggVars
    /\ AggFrame

InitAgg ==
    /\ now = 0
    /\ AggInit
    /\ KeyInit
    /\ SvcInit

NextAgg ==
    \/ AggNew
    \/ AggApprove
    \/ AggDeny
    \/ AggExpire
    \/ AggClearContactInfo
    \/ AggTick

SpecAgg == InitAgg /\ [][NextAgg]_vars

\* ------------------------------------------------- key store operations
RotInFlight == {r \in RotCalls : rot[r].pc # "idle"}

\* Calls that have still to generate a key pair; new calls start only while a
\* fingerprint below MaxKeys is left for each of them.
GeneratorsPending ==
    Cardinality({r \in RotCalls : rot[r].pc \in {"read", "marked"}})
      + Cardinality({e \in Engines : engine[e].pc = "generate"})
KeyBudgetLeft == nextFp + GeneratorsPending <= MaxKeys

\* NewRSAEncryptionService, first step: keyRepo.GetActiveKey()
EngineNew(e) ==
    /\ engine[e].pc = "none"
    /\ GetActiveKey(keys).err = NoErr \/ KeyBudgetLeft
    /\ LET res == GetActiveKey(keys)
       IN IF res.err = NoErr
          THEN \E f \in res.fps :
                  engine' = [engine EXCEPT ![e] = [pc |-> "ready", activeKey |-> f]]
          ELSE engine' = [engine EXCEPT ![e].pc = "generate"]
    /\ UNCHANGED <<keys, nextFp, rot, rotOk, lastEnc, lastDec, tok, lastVal>>
    /\ KeyFrame

\* NewRSAEncryptionService: generateInitialKey() after GetActiveKey failed
EngineGenerateInitialKey(e) ==
    /\ engine[e].pc = "generate"
    /\ nextFp <= MaxKeys
    /\ LET res == SaveKey(keys, nextFp, TRUE, now)
       IN /\ keys' = res.keys
          /\ engine' = [engine EXCEPT ![e].pc =
                            IF res.err = NoErr THEN "load" ELSE "none"]
    /\ nextFp' = nextFp + 1
    /\ UNCHANGED <<rot, rotOk, lastEnc, lastDec, tok, lastVal>>
    /\ KeyFrame

\* NewRSAEncryptionService: GetActiveKey() for the newly generated key
EngineLoad(e) ==
    /\ engine[e].pc = "load"
    /\ LET res == GetActiveKey(keys)
       IN IF res.err = NoErr
          THEN \E f \in res.fps :
                  engine' = [engine EXCEPT ![e] = [pc |-> "ready", activeKey |-> f]]
          ELSE engine' = [engine EXCEPT ![e].pc = "none"]
    /\ UNCHANGED <<keys, nextFp, rot, rotOk, lastEnc, lastDec, tok, lastVal>>
    /\ KeyFrame

\* RotateKeys is called on instance e: it reads s.activeKey
RotateBegin(r, e) ==
    /\ rot[r].pc = "idle"
    /\ engine[e].pc = "ready"
    /\ KeyBudgetLeft
    /\ rot' = [x \in RotCalls |->
                 IF x = r
                 THEN [pc |-> "read", eng |-> e, old |-> engine[e].activeKey,
                       result |-> "none", overlap |-> RotInFlight # {}]
                 ELSE IF x \in RotInFlight THEN [rot[x] EXCEPT !.overlap = TRUE]
                 ELSE rot[x]]
    /\ UNCHANGED <<keys, nextFp, engine, rotOk, lastEnc, lastDec, tok, lastVal>>
    /\ KeyFrame

\* RotateKeys: keyRepository.MarkKeyInactive(s.activeKey.Fingerprint)
RotateMarkInactive(r) ==
    /\ rot[r].pc = "read"
    /\ LET res == IF rot[r].old # NoKey THEN MarkKeyInactive(keys, rot[r].old)
                  ELSE [err |-> NoErr, keys |-> keys]
       IN /\ keys' = res.keys
          /\ rot' = [rot EXCEPT ![r] =
                        IF res.err = NoErr THEN [@ EXCEPT !.pc = "marked"]
                        ELSE [@ EXCEPT !.pc = "idle", !.result = "err_mark"]]
    /\ UNCHANGED <<nextFp, engine, rotOk, lastEnc, lastDec, tok, lastVal>>
    /\ KeyFrame

\* RotateKeys: generateInitialKey(), which ends in keyRepository.SaveKey
RotateGenerateKey(r) ==
    /\ rot[r].pc = "marked"
    /\ nextFp <= MaxKeys
    /\ LET res == SaveKey(keys, nextFp, TRUE, now)
       IN /\ keys' = res.keys
          /\ rot' = [rot EXCEPT ![r] =
                        IF res.err = NoErr THEN [@ EXCEPT !.pc = "saved"]
                        ELSE [@ EXCEPT !.pc = "idle", !.result = "err_save"]]
    /\ nextFp' = nextFp + 1
    /\ UNCHANGED <<engine, rotOk, lastEnc, lastDec, tok, lastVal>>
    /\ KeyFrame

\* RotateKeys: GetActiveKey(), s.activeKey = activeKey, return nil
RotateReload(r) ==
    /\ rot[r].pc = "saved"
    /\ LET res == GetActiveKey(keys)
       IN IF res.err = NoErr
          THEN \E f \in res.fps :
                  /\ engine' = [engine EXCEPT ![rot[r].eng].activeKey = f]
                  /\ rot' = [rot EXCEPT ![r] = [@ EXCEPT !.pc = "idle", !.result = "ok"]]
                  /\ rotOk' = rotOk + 1
          ELSE /\ rot' = [rot EXCEPT ![r] = [@ EXCEPT !.pc = "idle", !.result = "err_load"]]
               /\ UNCHANGED <<engine, rotOk>>
    /\ UNCHANGED <<keys, nextFp, lastEnc, lastDec, tok, lastVal>>
    /\ KeyFrame

\* EncryptContactInfo on instance e: encryptWithActiveKey uses s.activeKey
EngineEncrypt(e) ==
    /\ engine[e].pc = "ready"
    /\ \E ci \in EngineInputs :
          LET res == EncryptContactInfo(engine[e].activeKey, ci)
          IN lastEnc' = [op |-> "EncryptContactInfo", eng |-> e, in |-> ci,
                         err |-> res.err, enc |-> res.enc,
                         fp |-> engine[e].activeKey,
                         storeActive |-> ActiveFps(keys),
                         rotOk |-> rotOk,
                         rotInFlight |-> RotInFlight # {}]
    /\ UNCHANGED <<keys, nextFp, engine, rot, rotOk, lastDec, tok, lastVal>>
    /\ KeyFrame

\* DecryptContactInfo on instance e, of the payload the last EncryptContactInfo
\* call returned: decryptWithActiveKey uses s.activeKey
EngineDecrypt(e) ==
    /\ engine[e].pc = "ready"
    /\ lastEnc.op = "EncryptContactInfo"
    /\ lastEnc.err = NoErr
    /\ LET res == DecryptContactInfo(engine[e].activeKey, lastEnc.enc)
       IN lastDec' = [op |-> "DecryptContactInfo", eng |-> e,
                      err |-> res.err, ci |-> res.ci,
                      in |-> lastEnc.in, encFp |-> lastEnc.fp,
                      encRotOk |-> lastEnc.rotOk, rotOk |-> rotOk,
                      encRotInFlight |-> lastEnc.rotInFlight,
                      sameInstance |-> e = lastEnc.eng]
    /\ UNCHANGED <<keys, nextFp, engine, rot, rotOk, lastEnc, tok, lastVal>>
    /\ KeyFrame

\* GenerateContactToken on instance e, first half: marshal the payload and
\* encryptWithActiveKey.  A failure returns here.
TokenEncrypt(e) ==
    /\ engine[e].pc = "ready"
    /\ tok.pc # "encrypted"
    /\ \E ci \in EngineInputs, expiresAt \in 0..MaxTime :
          LET res == TokenCipher(engine[e].activeKey, ci, expiresAt, now)
          IN tok' = [pc |-> IF res.err = NoErr THEN "encrypted" ELSE "done",
                     eng |-> e, in |-> ci, expiresAt |-> expiresAt,
                     err |-> res.err, data |-> res.out, token |-> NoToken,
                     encFp |-> engine[e].activeKey, rotOk |-> rotOk,
                     raced |-> RotInFlight # {}]
    /\ lastVal' = [op |-> "none"]
    /\ UNCHANGED <<keys, nextFp, engine, rot, rotOk, lastEnc, lastDec>>
    /\ KeyFrame

\* GenerateContactToken, second half: the hash and the ContactToken literal,
\* which reads s.activeKey again; a RotateKeys on the same instance may have
\* assigned it in between.
TokenStamp ==
    /\ tok.pc = "encrypted"
    /\ tok' = [tok EXCEPT
                 !.pc = "done",
                 !.token = TokenLiteral(tok.data, engine[tok.eng].activeKey,
                                        tok.expiresAt, now),
                 !.raced = tok.raced \/ RotInFlight # {} \/ rotOk # tok.rotOk]
    /\ UNCHANGED <<keys, nextFp, engine, rot, rotOk, lastEnc, lastDec, lastVal>>
    /\ KeyFrame

\* ValidateContactToken on instance e, of the token the last
\* GenerateContactToken call returned, as the caller hands it back.  lastVal
\* is the outcome of the latest validation of the token in tok.
TokenValidate(e) ==
    /\ engine[e].pc = "ready"
    /\ tok.pc = "done"
    /\ tok.err = NoErr
    /\ \E how \in Tampers :
          LET res == ValidateContactToken(keys, Tampered(tok.token, how), now)
          IN lastVal' = [op |-> "ValidateContactToken", eng |-> e,
                         err |-> res.err, ci |-> res.ci, at |-> now,
                         tamper |-> how, rotOk |-> rotOk]
    /\ UNCHANGED <<keys, nextFp, engine, rot, rotOk, lastEnc, lastDec, tok>>
    /\ KeyFrame

InitKeys ==
    /\ now = 0
    /\ AggInit
    /\ KeyInit
    /\ SvcInit

NextKeys ==
    \/ \E e \in Engines : EngineNew(e)
    \/ \E e \in Engines : EngineGenerateInitialKey(e)
    \/ \E e \in Engines : EngineLoad(e)
    \/ \E r \in RotCalls, e \in Engines : RotateBegin(r, e)
    \/ \E r \in RotCalls : RotateMarkInactive(r)
    \/ \E r \in RotCalls : RotateGenerateKey(r)
    \/ \E r \in RotCalls : RotateReload(r)
    \/ \E e \in Engines : EngineEncrypt(e)
    \/ \E e \in Engines : EngineDecrypt(e)

SpecKeys == InitKeys /\ [][NextKeys]_vars

\* ------------------------------------- ContactExchangeService operations
\* Every operation takes the set F of collaborator failures it may meet.
\* The service's engine is e1.
Tick ==
    /\ now < MaxTime
    /\ now' = now + 1
    /\ UNCHANGED svcVars
    /\ SvcFrame

CreateContactExchangeRequest(F) ==
    /\ nCalls < MaxCalls
    /\ nCalls' = nCalls + 1
    /\ Len(db) < MaxReq
    /\ \E postState \in PostStates, requester \in Requesters, h \in ServiceHours,
          f \in F \cap {"none", "save", "lookup", "publish"} :
          LET res == NewContactExchangeRequest("post1", requester, PostOwner, h, now)
              id == Len(db) + 1
              early == IF PostCheck(postState) # NoErr THEN PostCheck(postState)
                       ELSE IF res.err # NoErr THEN res.err
                       ELSE IF f = "save" THEN "save_failed"
                       ELSE NoErr
          IN IF early # NoErr
             THEN /\ ret' = Ret("CreateContactExchangeRequest", early, id)
                                @@ [post |-> postState]
                  /\ UNCHANGED <<db, events>>
             ELSE /\ db' = Save(db, res.c)
                  /\ events' = IF f = "none"
                                THEN Append(events, Event("contact.exchange.requested", id, Nil))
                                ELSE events
                  /\ ret' = Ret("CreateContactExchangeRequest",
                                IF f = "lookup" THEN "lookup_failed" ELSE NoErr, id)
                                @@ [post |-> postState]
    /\ UNCHANGED <<now, approve, deny, sweep, cleanup, audit>>
    /\ SvcFrame

\* ApproveContactExchange: FindByID
ApproveFind ==
    /\ nCalls < MaxCalls
    /\ nCalls' = nCalls + 1
    /\ approve.pc = "idle"
    /\ \E id \in 1..(Len(db) + 1), a \in ServiceApprovalTypes, info \in EngineInputs :
          LET found == FindByID(db, id)
          IN IF found.err # NoErr
             THEN /\ ret' = Ret("ApproveContactExchange", found.err, id)
                  /\ UNCHANGED approve
             ELSE /\ approve' = [pc |-> "encrypt", id |-> id, request |-> found.request,
                                  approvalType |-> a, info |-> info, enc |-> NoEnc,
                                  logged |-> FALSE]
                  /\ UNCHANGED ret
    /\ UNCHANGED <<now, db, deny, sweep, cleanup, audit, events>>
    /\ SvcFrame

\* ApproveContactExchange: EncryptContactInfo and its audit entry
ApproveEncrypt(F) ==
    /\ approve.pc = "encrypt"
    /\ \E f \in F \cap {"none", "audit"} :
          LET res == EncryptContactInfo(engine["e1"].activeKey, approve.info)
              entry == WithErrorMessage(
                          AuditEntry("encrypt", approve.request.ownerUserID,
                                     approve.id, engine["e1"].activeKey,
                                     res.err = NoErr), res.err)
          IN /\ audit' = IF f = "audit" THEN audit ELSE Append(audit, entry)
             /\ IF res.err # NoErr
                THEN /\ approve' = IdleCall
                     /\ ret' = Ret("ApproveContactExchange", "encrypt_failed", approve.id)
                ELSE /\ approve' = [approve EXCEPT !.pc = "update", !.enc = res.enc,
                                                   !.logged = f # "audit"]
                     /\ UNCHANGED ret
    /\ UNCHANGED <<now, nCalls, db, deny, sweep, cleanup, events>>
    /\ SvcFrame

\* ApproveContactExchange: request.Approve and repository Update
ApproveUpdate(F) ==
    /\ approve.pc = "update"
    /\ \E f \in F \cap {"none", "update"} :
          LET res == Approve(approve.request, approve.approvalType, approve.enc, now)
          IN IF res.err # NoErr \/ f = "update"
             THEN /\ approve' = IdleCall
                  /\ ret' = Ret("ApproveContactExchange",
                                IF res.err # NoErr THEN res.err ELSE "update_failed",
                                approve.id)
                  /\ UNCHANGED db
             ELSE /\ db' = Update(db, approve.id, res.c, now)
                  /\ approve' = [approve EXCEPT !.pc = "notify", !.request = res.c]
                  /\ UNCHANGED ret
    /\ UNCHANGED <<now, nCalls, deny, sweep, cleanup, audit, events>>
    /\ SvcFrame

\* ApproveContactExchange: post and user lookups, publish, return
ApproveNotify(F) ==
    /\ approve.pc = "notify"
    /\ \E f \in F \cap {"none", "lookup", "publish"} :
          /\ events' = IF f = "none"
                        THEN Append(events, ApprovedEvent(approve.id, approve.approvalType,
                                                          approve.enc))
                        ELSE events
          /\ ret' = Ret("ApproveContactExchange",
                        IF f = "lookup" THEN "lookup_failed" ELSE NoErr, approve.id)
    /\ approve' = IdleCall
    /\ UNCHANGED <<now, nCalls, db, deny, sweep, cleanup, audit>>
    /\ SvcFrame

\* DenyContactExchange: FindByID
DenyFind ==
    /\ nCalls < MaxCalls
    /\ nCalls' = nCalls + 1
    /\ deny.pc = "idle"
    /\ \E id \in 1..(Len(db) + 1), r \in ServiceDenialReasons,
          m \in ServiceDenialMessages :
          LET found == FindByID(db, id)
          IN IF found.err # NoErr
             THEN /\ ret' = Ret("DenyContactExchange", found.err, id)
                  /\ UNCHANGED deny
             ELSE /\ deny' = [pc |-> "update", id |-> id, request |-> found.request,
                               reason |-> r, message |-> m]
                  /\ UNCHANGED ret
    /\ UNCHANGED <<now, db, approve, sweep, cleanup, audit, events>>
    /\ SvcFrame

\* DenyContactExchange: request.Deny and repository Update
DenyUpdate(F) ==
    /\ deny.pc = "update"
    /\ \E f \in F \cap {"none", "update"} :
          LET res == Deny(deny.request, deny.reason, deny.message, now)
          IN IF res.err # NoErr \/ f = "update"
             THEN /\ deny' = IdleCall
                  /\ ret' = Ret("DenyContactExchange",
                                IF res.err # NoErr THEN res.err ELSE "update_failed",
                                deny.id)
                  /\ UNCHANGED db
             ELSE /\ db' = Update(db, deny.id, res.c, now)
                  /\ deny' = [deny EXCEPT !.pc = "notify", !.request = res.c]
                  /\ UNCHANGED ret
    /\ UNCHANGED <<now, nCalls, approve, sweep, cleanup, audit, events>>
    /\ SvcFrame

\* DenyContactExchange: post and user lookups, publish, return
DenyNotify(F) ==
    /\ deny.pc = "notify"
    /\ \E f \in F \cap {"none", "lookup", "publish"} :
          /\ events' = IF f = "none"
                        THEN Append(events, Event("contact.exchange.denied", deny.id, Nil))
                        ELSE events
          /\ ret' = Ret("DenyContactExchange",
                        IF f = "lookup" THEN "lookup_failed" ELSE NoErr, deny.id)
    /\ deny' = IdleCall
    /\ UNCHANGED <<now, nCalls, db, approve, sweep, cleanup, audit>>
    /\ SvcFrame

\* ContactExchangeService.DecryptContactInfo, a whole call
DecryptContactInfoCall(F) ==
    /\ nCalls < MaxCalls
    /\ nCalls' = nCalls + 1
    /\ \E id \in 1..(Len(db) + 1), u \in Users, f \in F \cap {"none", "audit"} :
          LET found == FindByID(db, id)
          IN IF found.err # NoErr
             THEN /\ ret' = [op |-> "DecryptContactInfo", err |-> found.err, id |-> id,
                              userID |-> u, info |-> NoText, loaded |-> NoRequest,
                              at |-> now]
                  /\ UNCHANGED audit
             ELSE LET out == ServiceDecryptContactInfo(found.request, u, now,
                                                       engine["e1"].activeKey)
                      entry == WithErrorMessage(
                                  AuditEntry("decrypt", u, id, engine["e1"].activeKey,
                                             out.err = NoErr), out.err)
                  IN /\ ret' = [op |-> "DecryptContactInfo", err |-> out.err, id |-> id,
                                 userID |-> u, info |-> out.info,
                                 loaded |-> found.request, at |-> now]
                     /\ audit' = IF out.logged /\ f # "audit"
                                  THEN Append(audit, entry) ELSE audit
    /\ UNCHANGED <<now, db, approve, deny, sweep, cleanup, events>>
    /\ SvcFrame

\* ProcessExpiredRequests: FindExpired; a run that fetched nothing returns
ProcessExpiredRequestsFetch(F) ==
    /\ nCalls < MaxCalls
    /\ nCalls' = nCalls + 1
    /\ sweep.pc # "loop"
    /\ \E f \in F \cap {"none", "find"} :
          IF f = "find"
          THEN /\ ret' = Ret("ProcessExpiredRequests", "find_failed", 0)
               /\ UNCHANGED sweep
          ELSE LET q == FindExpired(db, now, SweepLimit)
               IN /\ sweep' = [pc |-> IF q = <<>> THEN "done" ELSE "loop",
                                queue |-> q, due |-> Due(db, now), faulted |-> FALSE]
                  /\ ret' = IF q = <<>> THEN Ret("ProcessExpiredRequests", NoErr, 0)
                             ELSE ret
    /\ UNCHANGED <<now, db, approve, deny, cleanup, audit, events>>
    /\ SvcFrame

\* ProcessExpiredRequests: one turn of its loop; after the last, it returns
ProcessExpiredRequestsStep(F) ==
    /\ sweep.pc = "loop"
    /\ \E f \in F \cap {"none", "update", "lookup", "publish"} :
          LET head == Head(sweep.queue)
              out == expireContactExchangeRequest(db, events, head.id, head.request, now, f)
              rest == RestAfter(sweep.queue, out.err)
          IN /\ db' = out.db
             /\ events' = out.events
             /\ sweep' = [sweep EXCEPT !.queue = rest,
                                        !.pc = IF rest = <<>> THEN "done" ELSE "loop",
                                        !.faulted = @ \/ out.err # NoErr]
             /\ ret' = IF rest = <<>> THEN Ret("ProcessExpiredRequests", NoErr, 0)
                        ELSE ret
    /\ UNCHANGED <<now, nCalls, approve, deny, cleanup, audit>>
    /\ SvcFrame

\* CleanupExpiredTokens: FindExpired; a run that fetched nothing returns
CleanupExpiredTokensFetch(F) ==
    /\ nCalls < MaxCalls
    /\ nCalls' = nCalls + 1
    /\ cleanup.pc # "loop"
    /\ \E f \in F \cap {"none", "find"} :
          IF f = "find"
          THEN /\ ret' = Ret("CleanupExpiredTokens", "find_failed", 0)
               /\ UNCHANGED cleanup
          ELSE LET q == FindExpired(db, now, CleanupLimit)
               IN /\ cleanup' = [pc |-> IF q = <<>> THEN "done" ELSE "loop",
                                  queue |-> q,
                                  stale |-> {id \in DOMAIN db :
                                               /\ db[id].status = "expired"
                                               /\ db[id].encryptedContactInfo # NoEnc},
                                  faulted |-> FALSE]
                  /\ ret' = IF q = <<>> THEN Ret("CleanupExpiredTokens", NoErr, 0)
                             ELSE ret
    /\ UNCHANGED <<now, db, approve, deny, sweep, audit, events>>
    /\ SvcFrame

\* CleanupExpiredTokens: one turn of its loop; after the last, it returns
CleanupExpiredTokensStep(F) ==
    /\ cleanup.pc = "loop"
    /\ \E f \in F \cap {"none", "update", "audit"} :
          LET head == Head(cleanup.queue)
              selected == /\ head.request.encryptedContactInfo # NoEnc
                          /\ head.request.status = "expired"
              out == IF selected
                     THEN securelyCleanupContactInfo(db, audit, head.id, head.request, now, f)
                     ELSE [err |-> NoErr, db |-> db, audit |-> audit]
              rest == RestAfter(cleanup.queue, out.err)
          IN /\ db' = out.db
             /\ audit' = out.audit
             /\ cleanup' = [cleanup EXCEPT !.queue = rest,
                                            !.pc = IF rest = <<>> THEN "done" ELSE "loop",
                                            !.faulted = @ \/ out.err # NoErr]
             /\ ret' = IF rest = <<>> THEN Ret("CleanupExpiredTokens", NoErr, 0)
                        ELSE ret
    /\ UNCHANGED <<now, nCalls, approve, deny, sweep, events>>
    /\ SvcFrame

Init ==
    /\ now = 0
    /\ AggInit
    /\ KeyReady
    /\ SvcInit

\* The service with every collaborator working.
Next ==
    \/ Tick
    \/ CreateContactExchangeRequest(NoFaults)
    \/ ApproveFind
    \/ ApproveEncrypt(NoFaults)
    \/ ApproveUpdate(NoFaults)
    \/ ApproveNotify(NoFaults)
    \/ DenyFind
    \/ DenyUpdate(NoFaults)
    \/ DenyNotify(NoFaults)
    \/ DecryptContactInfoCall(NoFaults)
    \/ ProcessExpiredRequestsFetch(NoFaults)
    \/ ProcessExpiredRequestsStep(NoFaults)
    \/ CleanupExpiredTokensFetch(NoFaults)
    \/ CleanupExpiredTokensStep(NoFaults)

Spec == Init /\ [][Next]_vars

\* The service with collaborators that may fail.
NextFaults ==
    \/ Tick
    \/ CreateContactExchangeRequest(Faults)
    \/ ApproveFind
    \/ ApproveEncrypt(Faults)
    \/ ApproveUpdate(Faults)
    \/ ApproveNotify(Faults)
    \/ DenyFind
    \/ DenyUpdate(Faults)
    \/ DenyNotify(Faults)
    \/ DecryptContactInfoCall(Faults)
    \/ ProcessExpiredRequestsFetch(Faults)
    \/ ProcessExpiredRequestsStep(Faults)
    \/ CleanupExpiredTokensFetch(Faults)
    \/ CleanupExpiredTokensStep(Faults)

SpecFaults == Init /\ [][NextFaults]_vars

\* The service with the repository Update as the only collaborator that fails.
NextUpdateFaults ==
    \/ Tick
    \/ CreateContactExchangeRequest(UpdateFaults)
    \/ ApproveFind
    \/ ApproveEncrypt(UpdateFaults)
    \/ ApproveUpdate(UpdateFaults)
    \/ ApproveNotify(UpdateFaults)
    \/ DenyFind
    \/ DenyUpdate(UpdateFaults)
    \/ DenyNotify(UpdateFaults)
    \/ DecryptContactInfoCall(UpdateFaults)
    \/ ProcessExpiredRequestsFetch(UpdateFaults)
    \/ ProcessExpiredRequestsStep(UpdateFaults)
    \/ CleanupExpiredTokensFetch(UpdateFaults)
    \/ CleanupExpiredTokensStep(UpdateFaults)

SpecUpdateFaults == Init /\ [][NextUpdateFaults]_vars

\* The operations of the service that publish events, with the event
\* publisher as the only collaborator that fails.
NextPublishFaults ==
    \/ Tick
    \/ CreateContactExchangeRequest(PublishFaults)
    \/ ApproveFind
    \/ ApproveEncrypt(PublishFaults)
    \/ ApproveUpdate(PublishFaults)
    \/ ApproveNotify(PublishFaults)
    \/ DenyFind
    \/ DenyUpdate(PublishFaults)
    \/ DenyNotify(PublishFaults)
    \/ ProcessExpiredRequestsFetch(PublishFaults)
    \/ ProcessExpiredRequestsStep(PublishFaults)

SpecPublishFaults == Init /\ [][NextPublishFaults]_vars

\* Tokens of a wired application: one engine, its key rotated under it one
\* RotateKeys call at a time, the clock running.
InitTokens ==
    /\ now = 0
    /\ AggInit
    /\ KeyReady
    /\ SvcInit

NextTokens ==
    \/ Tick
    \/ \E e \in Engines : RotateBegin("r1", e)
    \/ RotateMarkInactive("r1")
    \/ RotateGenerateKey("r1")
    \/ RotateReload("r1")
    \/ \E e \in Engines : TokenEncrypt(e)
    \/ TokenStamp
    \/ \E e \in Engines : TokenValidate(e)

SpecTokens == InitTokens /\ [][NextTokens]_vars

\* ------------------------------------------------------ sweeps over a
\* large table: more due requests than one FindExpired call returns.
BulkSizes == (SweepLimit - 1)..(SweepLimit + BulkExtra)

\* Row i of the table: a request created at time 0 to expire after one hour,
\* every other one approved since.
BulkRow(i) ==
    LET c == NewContactExchangeRequest("post1", "u1", PostOwner, 1, 0).c
        enc == EncryptContactInfo(1, [Email |-> Text(16), Phone |-> NoText,
                                      Message |-> NoText]).enc
    IN IF i % 2 = 0 THEN c ELSE Approve(c, "full_contact", enc, 0).c

InitBulk ==
    /\ now = 0
    /\ AggInit
    /\ KeyReady
    /\ \E n \in BulkSizes : db = [i \in 1..n |-> BulkRow(i)]
    /\ approve = IdleCall
    /\ deny = IdleCall
    /\ sweep = IdleSweep
    /\ cleanup = IdleCleanup
    /\ audit = <<>>
    /\ events = <<>>
    /\ ret = [op |-> "none"]
    /\ nCalls = 0

\* The clock of the bulk runs stands still while a run is in its loop.
BulkTick ==
    /\ sweep.pc # "loop"
    /\ Tick

NextBulk ==
    \/ BulkTick
    \/ ProcessExpiredRequestsFetch(NoFaults)
    \/ ProcessExpiredRequestsStep(NoFaults)

SpecBulk == InitBulk /\ [][NextBulk]_vars

\* The two periodic runs over a table of SweepRows requests that fall due
\* together, with the repository Update and the post and user lookups able to
\* fail on any request.
InitSweep ==
    /\ now = 0
    /\ AggInit
    /\ KeyReady
    /\ db = [i \in 1..SweepRows |-> BulkRow(i)]
    /\ approve = IdleCall
    /\ deny = IdleCall
    /\ sweep = IdleSweep
    /\ cleanup = IdleCleanup
    /\ audit = <<>>
    /\ events = <<>>
    /\ ret = [op |-> "none"]
    /\ nCalls = 0

NextSweep ==
    \/ Tick
    \/ ProcessExpiredRequestsFetch(SweepFaults)
    \/ ProcessExpiredRequestsStep(SweepFaults)
    \/ CleanupExpiredTokensFetch(SweepFaults)
    \/ CleanupExpiredTokensStep(SweepFaults)

SpecSweep == InitSweep /\ [][NextSweep]_vars

\* ------------------------------------------------------ key store claims
\* C8: in every reachable state of the key store, the states between the
\* steps of engine construction and of RotateKeys included, at most one
\* key has is_active = true.
C8_AtMostOneActiveKey == Cardinality(ActiveFps(keys)) <= 1

\* C8 witness: a RotateKeys call is between marking the old key inactive and
\* saving its new key while another call's new key is already active.
C8_Witness ==
    \E r \in RotCalls :
        /\ rot[r].pc = "marked"
        /\ rot[r].overlap
        /\ Cardinality(ActiveFps(keys)) = 1
        /\ ActiveFps(keys) # {rot[r].old}

\* C9: when two RotateKeys calls that overlapped in time have both returned,
\* the key store holds exactly one active key.
C9_ConcurrentRotationsOneActive ==
    (\A r \in RotCalls : rot[r].pc = "idle" /\ rot[r].result # "none" /\ rot[r].overlap)
        => Cardinality(ActiveFps(keys)) = 1

\* C9 witness: both calls overlapped and have returned, one with nil and one
\* with the error of a rejected SaveKey.
C9_Witness ==
    /\ \A r \in RotCalls : rot[r].pc = "idle" /\ rot[r].overlap
    /\ \E r \in RotCalls : rot[r].result = "ok"
    /\ \E r \in RotCalls : rot[r].result = "err_save"

\* C10 as claimed: once a RotateKeys call has returned nil, an
\* EncryptContactInfo on any instance (made while no rotation is in flight)
\* encrypts under the key that is active in the key store at that time.
C10_EncryptsUnderStoreActiveKey ==
    (/\ lastEnc.op = "EncryptContactInfo"
     /\ lastEnc.err = NoErr
     /\ lastEnc.rotOk > 0
     /\ ~lastEnc.rotInFlight)
        => lastEnc.storeActive = {lastEnc.fp}

\* C25: a ValidateContactToken call made after the token's ExpiresAt fails
\* with the expiry error and returns no contact info, whether the token was
\* handed back unaltered, with a wrong integrity hash, with an unknown key
\* fingerprint, or with both.
C25_ExpiredTokenAlwaysRejected ==
    (lastVal.op = "ValidateContactToken" /\ lastVal.at > tok.token.ExpiresAt)
        => (lastVal.err = "token_expired" /\ lastVal.ci = NoText)

C25_Witness ==
    /\ lastVal.op = "ValidateContactToken"
    /\ lastVal.at > tok.token.ExpiresAt
    /\ lastVal.tamper = "hash_and_fingerprint"
    /\ lastVal.err = "token_expired"

\* C26: a ValidateContactToken call, not after the token's ExpiresAt, on a
\* token whose integrity hash is not the SHA-256 of its ciphertext fails with
\* the integrity error, also when its key fingerprint names no stored key, so
\* ahead of the key lookup and the decryption.
C26_IntegrityCheckedBeforeKeyLookup ==
    (/\ lastVal.op = "ValidateContactToken"
     /\ lastVal.at <= tok.token.ExpiresAt
     /\ lastVal.tamper \in {"integrity_hash", "hash_and_fingerprint"})
        => (lastVal.err = "integrity_check_failed" /\ lastVal.ci = NoText)

C26_Witness ==
    /\ lastVal.op = "ValidateContactToken"
    /\ lastVal.at <= tok.token.ExpiresAt
    /\ lastVal.tamper = "hash_and_fingerprint"
    /\ lastVal.err = "integrity_check_failed"

\* C27 as claimed: the EncryptedContactInfo a successful EncryptContactInfo
\* returns holds no plaintext in its Email and Phone fields: each is absent or
\* ciphertext.
C27_NoPlaintextEmailOrPhone ==
    (lastEnc.op = "EncryptContactInfo" /\ lastEnc.err = NoErr)
        => \A field \in {"Email", "Phone"} :
              \/ lastEnc.enc[field] = NoText
              \/ lastEnc.enc[field] \notin {lastEnc.in.Email, lastEnc.in.Phone}
                 /\ DOMAIN lastEnc.enc[field] = {"b64"}

\* C24 as claimed: GenerateContactToken succeeds on every payload; a token
\* generated with no rotation under way carries the expiry it was given, the
\* fingerprint of the key that encrypted it and the hash of its ciphertext;
\* and validating it unaltered, not past that expiry, returns the payload.
C24_TokenRoundTrip ==
    /\ tok.pc = "done" => tok.err = NoErr
    /\ (tok.pc = "done" /\ tok.err = NoErr /\ ~tok.raced)
          => (/\ tok.token.ExpiresAt = tok.expiresAt
              /\ tok.token.KeyFingerprint = tok.encFp
              /\ tok.token.IntegrityHash = B64Encode(Sha256(tok.data)))
    /\ (/\ lastVal.op = "ValidateContactToken"
        /\ lastVal.tamper = "none"
        /\ ~tok.raced
        /\ lastVal.at <= tok.expiresAt)
          => (lastVal.err = NoErr /\ lastVal.ci = tok.in)

\* C23 as claimed: EncryptContactInfo succeeds on every payload, and a
\* DecryptContactInfo of its result on the same instance, with no rotation
\* begun or ended since, succeeds and returns the payload.
C23_RoundTripAnyPayload ==
    /\ lastEnc.op = "EncryptContactInfo" => lastEnc.err = NoErr
    /\ (/\ lastDec.op = "DecryptContactInfo"
        /\ lastDec.sameInstance
        /\ ~lastDec.encRotInFlight
        /\ lastDec.rotOk = lastDec.encRotOk
        /\ RotInFlight = {})
          => (lastDec.err = NoErr /\ lastDec.ci = lastDec.in)

\* C14 as claimed: the step on which an engine operation (EncryptContactInfo,
\* DecryptContactInfo, RotateKeys) returns appends exactly one entry to the
\* audit log.
C14_EngineOperationAppendsOneEntry ==
    [][(\/ lastEnc' # lastEnc
        \/ lastDec' # lastDec
        \/ \E r \in RotCalls : rot[r].pc # "idle" /\ rot'[r].pc = "idle")
          => Len(audit') = Len(audit) + 1]_vars

\* C13: the step on which a RotateKeys call returns nil leaves the instance's
\* GetActiveKeyFingerprint different from the fingerprint the call started
\* with, that key the only active key in the store, and the key the call
\* started with still stored and inactive.
C13_RotationReplacesActiveKey ==
    [][\A r \in RotCalls :
          (rot[r].pc = "saved" /\ rot'[r].pc = "idle" /\ rot'[r].result = "ok")
              => LET after == engine'[rot[r].eng].activeKey
                 IN /\ after # NoKey
                    /\ after # rot[r].old
                    /\ ActiveFps(keys') = {after}
                    /\ rot[r].old \in DOMAIN keys'
                    /\ ~keys'[rot[r].old].is_active]_vars

C13_Witness ==
    \E r \in RotCalls :
        /\ rot[r].pc = "idle"
        /\ rot[r].result = "ok"
        /\ engine[rot[r].eng].activeKey # rot[r].old
        /\ ActiveFps(keys) = {engine[rot[r].eng].activeKey}
        /\ ~keys[rot[r].old].is_active

\* C12: a token generated with no rotation under way validates to its contact
\* info, unaltered and not past its expiry, after one or more RotateKeys calls
\* have returned nil; the key is the one named by the stored fingerprint.
C12_TokenValidatesAfterRotation ==
    (/\ lastVal.op = "ValidateContactToken"
     /\ lastVal.tamper = "none"
     /\ ~tok.raced
     /\ lastVal.rotOk > tok.rotOk
     /\ lastVal.at <= tok.expiresAt)
        => (/\ lastVal.err = NoErr
            /\ lastVal.ci = tok.in
            /\ tok.token.KeyFingerprint = tok.encFp)

C12_Witness ==
    /\ lastVal.op = "ValidateContactToken"
    /\ lastVal.tamper = "none"
    /\ ~tok.raced
    /\ lastVal.rotOk > tok.rotOk
    /\ lastVal.at <= tok.expiresAt
    /\ lastVal.err = NoErr
    /\ lastVal.ci = tok.in
    /\ engine[lastVal.eng].activeKey # tok.token.KeyFingerprint

\* C11 as claimed: a payload that EncryptContactInfo returned while no
\* rotation was in flight is decrypted to its plaintext by a
\* DecryptContactInfo call on the same instance made after one or more
\* RotateKeys calls have returned nil in between.
C11_DecryptsAfterRotation ==
    (/\ lastDec.op = "DecryptContactInfo"
     /\ lastDec.sameInstance
     /\ ~lastDec.encRotInFlight
     /\ lastDec.rotOk > lastDec.encRotOk)
        => (lastDec.err = NoErr /\ lastDec.ci = lastDec.in)

\* C38: when a RotateKeys call returns an error, the key store holds exactly
\* one active key and that key is the working key of the engine the call ran
\* on.
C38_FailedRotationKeepsActiveKey ==
    [][\A r \in RotCalls :
          (/\ rot[r].pc # "idle"
           /\ rot'[r].pc = "idle"
           /\ rot'[r].result # "ok")
              => ActiveFps(keys') = {engine'[rot[r].eng].activeKey}]_vars

\* ------------------------------------------------ aggregate-level claims
AggMethods == {"Approve", "Deny", "Expire", "ClearContactInfo"}

\* C30: NewContactExchangeRequest returns an error and no request when the
\* post reference is zero, when either identity is zero, or when requester
\* equals owner; a request it returns is pending, without payload, built from
\* the arguments, and has requester different from owner.
C30_ConstructorValidates ==
    aggCall.op = "New"
        => LET a == aggCall.args
           IN /\ (\/ a.postID = ZeroPost
                  \/ a.requesterUserID = ZeroUser
                  \/ a.ownerUserID = ZeroUser
                  \/ a.requesterUserID = a.ownerUserID)
                    => (aggCall.err # NoErr /\ agg = NoRequest)
              /\ aggCall.err = NoErr
                    => (/\ agg # NoRequest
                        /\ agg.status = "pending"
                        /\ agg.encryptedContactInfo = NoEnc
                        /\ agg.requesterUserID # agg.ownerUserID
                        /\ agg.requesterUserID = a.requesterUserID
                        /\ agg.ownerUserID = a.ownerUserID
                        /\ agg.postID = a.postID)

C30_Witness ==
    /\ aggCall.op = "New"
    /\ aggCall.args.postID # ZeroPost
    /\ aggCall.args.requesterUserID # ZeroUser
    /\ aggCall.args.requesterUserID = aggCall.args.ownerUserID
    /\ aggCall.err = "cannot_request_own_contact"
    /\ agg = NoRequest

\* C31: whatever expirationHours the constructor is handed, the request it
\* returns expires strictly after its creation time: expirationHours hours
\* after it when expirationHours > 0, 72 hours after it otherwise.
C31_ExpiryAfterCreation ==
    (aggCall.op = "New" /\ aggCall.err = NoErr)
        => LET h == aggCall.args.expirationHours
           IN /\ agg.expiresAt > agg.createdAt
              /\ agg.expiresAt = agg.createdAt
                                    + (IF h > 0 THEN h ELSE DefaultExpirationHours)

\* C32: Deny returns no error exactly when the request was pending, and then
\* the request is denied with the reason and message of the call (nothing else
\* but its update stamp changes); called on an approved, denied or expired
\* request it returns an error and the request is what it was.
C32_DenyOnlyFromPending ==
    aggCall.op = "Deny" =>
        IF aggBefore.status = "pending"
        THEN /\ aggCall.err = NoErr
             /\ agg = [aggBefore EXCEPT !.status = "denied",
                                         !.denialReason = aggCall.args.reason,
                                         !.denialMessage = aggCall.args.message,
                                         !.updatedAt = aggCall.at]
        ELSE /\ aggCall.err # NoErr
             /\ agg = aggBefore

\* C32 witness: a pending request was denied with a message.
C32_Witness ==
    /\ aggCall.op = "Deny"
    /\ aggBefore.status = "pending"
    /\ aggCall.args.message # Nil
    /\ agg.status = "denied"
    /\ agg.denialMessage = aggCall.args.message

\* C33: Expire turns a pending or approved request into an expired one and
\* returns no error; on an expired request it returns no error and changes
\* nothing; on a denied request it returns an error and changes nothing.
\* Applying Expire to its own result, at the same or any later time, returns
\* no error and that same result.
C33_ExpireIdempotent ==
    /\ aggCall.op = "Expire" =>
          /\ aggBefore.status \in {"pending", "approved"} =>
                (/\ aggCall.err = NoErr
                 /\ agg = [aggBefore EXCEPT !.status = "expired",
                                             !.updatedAt = aggCall.at])
          /\ aggBefore.status = "expired" =>
                (aggCall.err = NoErr /\ agg = aggBefore)
          /\ aggBefore.status = "denied" =>
                (aggCall.err # NoErr /\ agg = aggBefore)
    /\ (agg # NoRequest /\ agg.status # "denied") =>
          \A t \in now..MaxTime :
              LET once == Expire(agg, now)
                  twice == Expire(once.c, t)
              IN once.err = NoErr /\ twice.err = NoErr /\ twice.c = once.c

\* C33 witness: Expire was called on a request that had expired earlier.
C33_Witness ==
    /\ aggCall.op = "Expire"
    /\ aggBefore.status = "expired"
    /\ aggCall.at > aggBefore.updatedAt
    /\ aggCall.err = NoErr
    /\ agg = aggBefore

\* C34: ClearContactInfo returns no error exactly when the request was
\* expired, and then only the payload (set to nil) and the update stamp
\* change; on a pending, approved or denied request it returns an error and
\* the request, payload included, is what it was.
C34_ClearOnlyWhenExpired ==
    aggCall.op = "ClearContactInfo" =>
        IF aggBefore.status = "expired"
        THEN /\ aggCall.err = NoErr
             /\ agg = [aggBefore EXCEPT !.encryptedContactInfo = NoEnc,
                                         !.updatedAt = aggCall.at]
        ELSE /\ aggCall.err # NoErr
             /\ agg = aggBefore

\* C34 witness: ClearContactInfo was refused on an approved request, which
\* keeps its payload.
C34_Witness ==
    /\ aggCall.op = "ClearContactInfo"
    /\ aggBefore.status = "approved"
    /\ aggBefore.encryptedContactInfo # NoEnc
    /\ aggCall.err # NoErr
    /\ agg.encryptedContactInfo = aggBefore.encryptedContactInfo

\* C1: Approve returns no error only when the request was pending and the
\* call's time was not past its expiry; called in any other status, or on a
\* pending request past expiry, it returns an error and the request is
\* field for field what it was before the call.
C1_ApproveOnlyPendingUnexpired ==
    aggCall.op = "Approve" =>
        /\ (aggCall.err = NoErr) =>
              (aggBefore.status = "pending" /\ ~(aggCall.at > aggBefore.expiresAt))
        /\ (aggBefore.status # "pending" \/ aggCall.at > aggBefore.expiresAt) =>
              (aggCall.err # NoErr /\ agg = aggBefore)

\* C1 witness: Approve was called on a pending request past its expiry.
C1_Witness ==
    /\ aggCall.op = "Approve"
    /\ aggBefore.status = "pending"
    /\ aggCall.at > aggBefore.expiresAt
    /\ aggCall.err = "expired"

\* C2 as claimed: the aggregate carries an encrypted payload only while its
\* status is approved.
C2_PayloadOnlyWhenApproved ==
    agg # NoRequest =>
        (agg.encryptedContactInfo # NoEnc => agg.status = "approved")

\* C2 amended: the aggregate carries an encrypted payload only while its
\* status is approved or expired (Expire keeps the payload of an approved
\* request; only ClearContactInfo removes it).
C2_PayloadOnlyWhenApprovedOrExpired ==
    agg # NoRequest =>
        (agg.encryptedContactInfo # NoEnc => agg.status \in {"approved", "expired"})

\* C2 witness: an approved request was expired and still carries its payload.
C2_Witness ==
    /\ agg # NoRequest
    /\ aggCall.op = "Expire"
    /\ aggBefore.status = "approved"
    /\ agg.status = "expired"
    /\ agg.encryptedContactInfo # NoEnc

\* C3: once the aggregate is denied or expired, no method call changes its
\* status.
C3_DeniedExpiredTerminal ==
    [][(agg # NoRequest /\ agg.status \in {"denied", "expired"})
          => agg'.status = agg.status]_vars

\* C3 witness: a method was called on a request that was already denied.
C3_Witness ==
    /\ aggCall.op \in AggMethods
    /\ aggBefore # NoRequest
    /\ aggBefore.status = "denied"
    /\ agg.status = "denied"

\* C29: a CreateContactExchangeRequest call for a post that exists and is not
\* active returns an error, stores no request and publishes no event.
C29_InactivePostRejected ==
    [][(/\ nCalls' = nCalls + 1
        /\ ret'.op = "CreateContactExchangeRequest"
        /\ ret'.post = "resolved")
          => (/\ ret'.err # NoErr
              /\ db' = db
              /\ events' = events)]_vars

C29_Witness ==
    /\ ret.op = "CreateContactExchangeRequest"
    /\ ret.post = "resolved"
    /\ ret.err = "post_not_active"
    /\ db = <<>>
    /\ events = <<>>

\* C28 as claimed: every contact.exchange.approved event published carries
\* an encrypted contact token, and no field of it holds a plaintext contact
\* value.
C28_ApprovedEventCarriesToken ==
    \A i \in DOMAIN events :
        events[i].type = "contact.exchange.approved"
            => (/\ events[i].data.ContactToken # NoToken
                /\ events[i].data.Message = NoText
                /\ events[i].data.PreferredMethod = NoText)

\* C22: a turn of the loop of ProcessExpiredRequests or CleanupExpiredTokens,
\* whether or not it failed on its request, leaves every other fetched request
\* in the queue, the run ends only when the queue is empty, and it then
\* returns no error.
C22_SweepContinuesAfterFailure ==
    [][/\ (sweep.pc = "loop" /\ sweep' # sweep)
            => (/\ sweep'.queue = Tail(sweep.queue)
                /\ sweep'.pc = (IF Tail(sweep.queue) = <<>> THEN "done" ELSE "loop")
                /\ sweep'.pc = "done"
                      => ret' = Ret("ProcessExpiredRequests", NoErr, 0))
       /\ (cleanup.pc = "loop" /\ cleanup' # cleanup)
            => (/\ cleanup'.queue = Tail(cleanup.queue)
                /\ cleanup'.pc = (IF Tail(cleanup.queue) = <<>> THEN "done" ELSE "loop")
                /\ cleanup'.pc = "done"
                      => ret' = Ret("CleanupExpiredTokens", NoErr, 0))]_vars

\* A run that failed on its first request and expired a later one.
C22_Witness ==
    /\ sweep.pc = "done"
    /\ sweep.faulted
    /\ {1, 2} \subseteq sweep.due
    /\ db[1].status # "expired"
    /\ db[2].status = "expired"
    /\ ret = Ret("ProcessExpiredRequests", NoErr, 0)

\* C21: with the publisher the only collaborator that fails, a step that
\* reaches PublishEvent and leaves the published events as they were (the
\* publish failed) still returns success and keeps the persisted transition:
\* the created row is stored pending, the approved or denied row is not
\* written again, and the swept row is stored expired with no error counted.
C21_PublishFailureSwallowed ==
    [][/\ (Len(db') = Len(db) + 1 /\ events' = events)
            => (/\ ret'.op = "CreateContactExchangeRequest"
                /\ ret'.err = NoErr
                /\ db'[ret'.id].status = "pending"
                /\ SubSeq(db', 1, Len(db)) = db)
       /\ (approve.pc = "notify" /\ approve'.pc = "idle" /\ events' = events)
            => (/\ ret'.op = "ApproveContactExchange"
                /\ ret'.id = approve.id
                /\ ret'.err = NoErr
                /\ db' = db)
       /\ (deny.pc = "notify" /\ deny'.pc = "idle" /\ events' = events)
            => (/\ ret'.op = "DenyContactExchange"
                /\ ret'.id = deny.id
                /\ ret'.err = NoErr
                /\ db' = db)
       /\ (/\ sweep.pc = "loop"
           /\ sweep'.queue # sweep.queue
           /\ events' = events
           /\ Expire(Head(sweep.queue).request, now).err = NoErr)
            => (/\ db'[Head(sweep.queue).id].status = "expired"
                /\ sweep'.faulted = sweep.faulted)]_vars

\* A request swept to expired, and an approval returned, with nothing
\* published for either.
C21_Witness ==
    /\ ret.op = "ProcessExpiredRequests"
    /\ ret.err = NoErr
    /\ sweep.pc = "done"
    /\ ~sweep.faulted
    /\ \E id \in DOMAIN db : db[id].status = "expired"
    /\ events = <<>>

\* C20: the step on which the repository Update fails in
\* ApproveContactExchange or DenyContactExchange (the aggregate accepted the
\* transition, yet the call ends there) returns an error for that request and
\* leaves the table as it was; a row that still equalled the loaded request
\* stays pending with no approval type, denial reason or payload.
C20_UpdateFailureLeavesRow ==
    [][\A c \in {"approve", "deny"} :
          LET call == IF c = "approve" THEN approve ELSE deny
              after == IF c = "approve" THEN approve' ELSE deny'
          IN (/\ call.pc = "update"
              /\ after.pc = "idle"
              /\ (IF c = "approve"
                  THEN Approve(call.request, call.approvalType, call.enc, now)
                  ELSE Deny(call.request, call.reason, call.message, now)).err = NoErr)
                => (/\ ret'.err # NoErr
                    /\ ret'.id = call.id
                    /\ ret'.op = (IF c = "approve" THEN "ApproveContactExchange"
                                  ELSE "DenyContactExchange")
                    /\ db' = db
                    /\ db[call.id] = call.request
                          => (/\ db'[call.id].status = "pending"
                              /\ db'[call.id].approvalType = Nil
                              /\ db'[call.id].denialReason = Nil
                              /\ db'[call.id].encryptedContactInfo = NoEnc))]_vars

C20_Witness ==
    /\ ret.op \in {"ApproveContactExchange", "DenyContactExchange"}
    /\ ret.err = "update_failed"
    /\ approve.pc = "idle"
    /\ deny.pc = "idle"
    /\ db[ret.id].status = "pending"
    /\ db[ret.id].encryptedContactInfo = NoEnc

\* C19 as claimed: on the step that ends an ApproveContactExchange call which
\* had loaded its request, the audit log holds a successful encrypt entry for
\* the request only if the persisted request is no longer pending, and a
\* request persisted as approved with its payload has such an entry.
C19_AuditAgreesWithPersistedStatus ==
    [][(approve.pc # "idle" /\ approve'.pc = "idle")
          => LET id == approve.id
             IN /\ EncryptSuccesses(audit', id) # {}
                      => db'[id].status # "pending"
                /\ (/\ db'[id].status = "approved"
                    /\ db'[id].encryptedContactInfo # NoEnc)
                      => EncryptSuccesses(audit', id) # {}]_vars

\* C18 as claimed: when an ApproveContactExchange call whose LogOperation
\* worked returns success, the audit log holds exactly one successful encrypt
\* entry for the request id, tagged with the fingerprint of the engine's
\* active key.
C18_OneEncryptEntryOnApproval ==
    [][(/\ approve.pc = "notify"
        /\ approve.logged
        /\ approve'.pc = "idle"
        /\ ret'.err = NoErr)
          => LET entries == EncryptSuccesses(audit', approve.id)
             IN /\ Cardinality(entries) = 1
                /\ \A i \in entries :
                      audit'[i].keyFingerprint = engine["e1"].activeKey]_vars

\* C17: the step on which EncryptContactInfo fails inside
\* ApproveContactExchange appends a failed encrypt entry that carries the error
\* message and the request id, returns an error, leaves the store as it was,
\* and leaves a request that was loaded pending without a payload, in memory
\* and in the store.
C17_EncryptFailureAuditedNoMutation ==
    [][(/\ approve.pc = "encrypt"
        /\ EncryptContactInfo(engine["e1"].activeKey, approve.info).err # NoErr)
          => (/\ approve'.pc = "encrypt"
              \/ /\ approve'.pc = "idle"
                 /\ Len(audit') = Len(audit) + 1
                 /\ SubSeq(audit', 1, Len(audit)) = audit
                 /\ audit'[Len(audit')].operation = "encrypt"
                 /\ ~audit'[Len(audit')].success
                 /\ audit'[Len(audit')].errorMessage # Nil
                 /\ audit'[Len(audit')].requestID = approve.id
                 /\ ret'.op = "ApproveContactExchange"
                 /\ ret'.id = approve.id
                 /\ ret'.err # NoErr
                 /\ db' = db
                 /\ approve.request.status = "pending"
                       => approve.request.encryptedContactInfo = NoEnc
                 /\ db[approve.id].status = "pending"
                       => (/\ db'[approve.id].status = "pending"
                           /\ db'[approve.id].encryptedContactInfo = NoEnc))]_vars

C17_Witness ==
    /\ ret.op = "ApproveContactExchange"
    /\ ret.err = "encrypt_failed"
    /\ approve.pc = "idle"
    /\ audit # <<>>
    /\ audit[Len(audit)].operation = "encrypt"
    /\ ~audit[Len(audit)].success
    /\ audit[Len(audit)].requestID = ret.id
    /\ db[ret.id].status = "pending"
    /\ db[ret.id].encryptedContactInfo = NoEnc

\* C16 as claimed: every ContactExchangeService.DecryptContactInfo call that
\* found its request appends a decrypt audit entry naming the caller and the
\* request, whatever it returns.
C16_EveryDecryptAttemptAudited ==
    [][(/\ nCalls' = nCalls + 1
        /\ ret'.op = "DecryptContactInfo"
        /\ ret' # ret
        /\ ret'.loaded # NoRequest)
          => (/\ Len(audit') = Len(audit) + 1
              /\ audit'[Len(audit')].operation = "decrypt"
              /\ audit'[Len(audit')].userID = ret'.userID
              /\ audit'[Len(audit')].requestID = ret'.id)]_vars

\* C15 as claimed: a ContactExchangeService.DecryptContactInfo call that
\* reports success has appended its decrypt entry to the audit log, also when
\* LogOperation can fail.
C15_SuccessImpliesAuditEntry ==
    [][(/\ nCalls' = nCalls + 1
        /\ ret'.op = "DecryptContactInfo"
        /\ ret' # ret
        /\ ret'.err = NoErr)
          => (/\ Len(audit') = Len(audit) + 1
              /\ audit'[Len(audit')].operation = "decrypt"
              /\ audit'[Len(audit')].success)]_vars

\* ---------------------------------------------------- service claims
\* C4: a DecryptContactInfo call by a user who is neither the requester nor
\* the owner of the loaded request returns the authorization error and no
\* contact data, whatever the request's status.
C4_ThirdPartyDecryptUnauthorized ==
    (/\ ret.op = "DecryptContactInfo"
     /\ ret.loaded # NoRequest
     /\ ret.userID # ret.loaded.requesterUserID
     /\ ret.userID # ret.loaded.ownerUserID)
        => (ret.err = "unauthorized" /\ ret.info = NoText)

\* C4 witness: a third party was refused on a request that is approved,
\* carries a payload and has not expired.
C4_Witness ==
    /\ ret.op = "DecryptContactInfo"
    /\ ret.loaded # NoRequest
    /\ ret.userID = "u3"
    /\ ret.loaded.status = "approved"
    /\ ret.loaded.encryptedContactInfo # NoEnc
    /\ ~(ret.at > ret.loaded.expiresAt)
    /\ ret.err = "unauthorized"

\* C5: DecryptContactInfo returns contact data only when the loaded request
\* is approved and its expiry time has not passed; on a pending, denied or
\* expired request, or an approved one past its expiry, it returns an error
\* and no contact data, the requester and the owner included.
C5_DecryptOnlyApprovedUnexpired ==
    (ret.op = "DecryptContactInfo" /\ ret.loaded # NoRequest)
        => /\ (ret.err = NoErr \/ ret.info # NoText)
                => (/\ ret.err = NoErr
                    /\ ret.loaded.status = "approved"
                    /\ ~(ret.at > ret.loaded.expiresAt))
           /\ (ret.loaded.status # "approved" \/ ret.at > ret.loaded.expiresAt)
                => (ret.err # NoErr /\ ret.info = NoText)

\* C5 witness: the requester was refused on an approved request that still
\* carries its payload but is past its expiry.
C5_Witness ==
    /\ ret.op = "DecryptContactInfo"
    /\ ret.loaded # NoRequest
    /\ ret.userID = ret.loaded.requesterUserID
    /\ ret.loaded.status = "approved"
    /\ ret.loaded.encryptedContactInfo # NoEnc
    /\ ret.at > ret.loaded.expiresAt
    /\ ret.err = "expired"
    /\ ret.info = NoText

\* C6 as claimed: when a CleanupExpiredTokens run that met no failure has
\* returned and no other call is in flight, every request that was expired
\* and still carried its payload when the run began (an approved request the
\* sweep has expired) and is still expired has a nil payload.
C6_CleanupClearsExpiredPayload ==
    (/\ cleanup.pc = "done"
     /\ ~cleanup.faulted
     /\ approve.pc = "idle"
     /\ deny.pc = "idle"
     /\ sweep.pc # "loop")
        => \A id \in cleanup.stale :
              db[id].status = "expired" => db[id].encryptedContactInfo = NoEnc

\* C7 as claimed: when a ProcessExpiredRequests run that met no failure has
\* returned, every request that was due when the run fetched (expiry reached,
\* status pending or approved) is expired, however many there were.
C7_SweepExpiresEveryDueRequest ==
    (sweep.pc = "done" /\ ~sweep.faulted)
        => \A id \in sweep.due : db[id].status = "expired"

\* ------------------------------------------------- concurrent service calls
Published(type, id) ==
    \E i \in DOMAIN events : events[i].type = type /\ events[i].requestID = id

\* C35: for one request, the approved event and the denied event are never
\* both published (each is published in the step in which its call returns
\* success, so at most one of an Approve and a Deny of the request succeeds),
\* and a request whose denial was published is not stored as approved.
C35_ApproveDenyExclusive ==
    \A id \in DOMAIN db :
        /\ ~(/\ Published("contact.exchange.approved", id)
              /\ Published("contact.exchange.denied", id))
        /\ Published("contact.exchange.denied", id) => db[id].status # "approved"

\* C36: a stored request whose status is denied or expired keeps that status
\* in every step of every handler.
C36_PersistedTerminalStatusStays ==
    [][\A id \in DOMAIN db :
          db[id].status \in {"denied", "expired"}
              => db'[id].status = db[id].status]_vars

\* C37: a CreateContactExchangeRequest, ApproveContactExchange or
\* DenyContactExchange call that returns an error has written nothing: the
\* step in which it returns leaves the table as it was, and an Approve or Deny
\* that returns an error has not run its Update before.
C37_ErrorLeavesStoreUnchanged ==
    [][/\ (/\ nCalls' = nCalls + 1
            /\ ret'.op = "CreateContactExchangeRequest"
            /\ ret'.err # NoErr) => db' = db
       /\ \A c \in {"approve", "deny"} :
             LET call == IF c = "approve" THEN approve ELSE deny
                 after == IF c = "approve" THEN approve' ELSE deny'
             IN (call.pc # "idle" /\ after.pc = "idle" /\ ret'.err # NoErr)
                    => (db' = db /\ call.pc # "notify")]_vars

C40_ExpiredEventOriginalStatus ==
    [][(/\ sweep.pc = "loop"
        /\ sweep' # sweep
        /\ Len(events') = Len(events) + 1)
          => LET e == events'[Len(events')]
             IN /\ e.type = "contact.exchange.expired"
                /\ e.requestID = Head(sweep.queue).id
                /\ e.originalStatus = Head(sweep.queue).request.status]_vars

====
